---- MODULE Spec2Model ----
(***************************************************************************)
(* A model of gcf_xlsx_parser/main.py: the GCPXLSXParser class (parse,      *)
(* detect_complexity, forward_to_cloud_run, log_error, json_serializer)    *)
(* and the two triggers convert_xlsx_to_json / convert_xlsx_to_json_http.  *)
(*                                                                         *)
(* Blob keys are sequences of one-character strings, so that str.endswith  *)
(* and str.replace are computed character by character.  A blob store is a *)
(* function from the keys that exist to their content.  Python values that *)
(* flow out of a handler are records [t, s, err]: t is the Python type,    *)
(* s a label of the value and err says whether `"error" in value` is true. *)
(***************************************************************************)
EXTENDS Integers, Sequences, FiniteSets, TLC

VARIABLES
    store,          \* the bucket: key -> blob content, for the keys that exist
    pc,             \* position of the single invocation ("start" / "done"), or of each logger
    input,          \* the input the handler was invoked with
    parser,         \* fields of the GCPXLSXParser the trigger constructed
    out,            \* what the handler returned: parse's return value, HTTP status ...
    prior,          \* the store before the invocation
    existing_log,   \* log_error's local variable, per concurrent invocation
    calls,          \* log_error calls completed, per concurrent invocation
    hist,           \* messages in the order their uploads were performed
    overlap         \* TRUE once two log_error calls have overlapped in time

vars == <<store, pc, input, parser, out, prior, existing_log, calls, hist, overlap>>

-----------------------------------------------------------------------------
(* Python str operations on keys *)

\* s[i..] as Python slices it
Drop(s, n) == SubSeq(s, n + 1, Len(s))

StartsWith(s, p) == Len(p) <= Len(s) /\ SubSeq(s, 1, Len(p)) = p

EndsWith(s, p) == Len(p) <= Len(s) /\ SubSeq(s, Len(s) - Len(p) + 1, Len(s)) = p

\* str.replace(old, new): every non-overlapping occurrence, scanning left to right
RECURSIVE Replace(_, _, _)
Replace(s, old, new) ==
    IF Len(s) = 0 THEN <<>>
    ELSE IF StartsWith(s, old) THEN new \o Replace(Drop(s, Len(old)), old, new)
    ELSE <<Head(s)>> \o Replace(Tail(s), old, new)

DotXlsx == <<".", "x", "l", "s", "x">>
DotXls == <<".", "x", "l", "s">>
DotJson == <<".", "j", "s", "o", "n">>
ErrorLogSuffix == <<"_", "e", "r", "r", "o", "r", ".", "l", "o", "g">>

-----------------------------------------------------------------------------
(* Python values *)

PyStr(s, err) == [t |-> "str", s |-> s, err |-> err]
PyDict(s, err) == [t |-> "dict", s |-> s, err |-> err]
PyRaise(exc) == [t |-> "raise", s |-> exc, err |-> FALSE]
PyNone == [t |-> "none", s |-> "", err |-> FALSE]

SUCCESS == PyStr("JSON file successfully created in GCS.", FALSE)
FAILED == PyStr("Failed to process XLSX file.", FALSE)

-----------------------------------------------------------------------------
(* The blob store *)

\* blob contents: zero bytes, bytes no engine decodes, a workbook, text, a JSON document
EmptyBytes == [kind |-> "empty", wb |-> <<>>, text |-> <<>>, json |-> <<>>]
GarbageBytes == [kind |-> "garbage", wb |-> <<>>, text |-> <<>>, json |-> <<>>]
WorkbookBytes(wb) == [kind |-> "workbook", wb |-> wb, text |-> <<>>, json |-> <<>>]
TextBlob(text) == [kind |-> "text", wb |-> <<>>, text |-> text, json |-> <<>>]
JsonBlob(json) == [kind |-> "json", wb |-> <<>>, text |-> <<>>, json |-> json]

NoStore == [k \in {} |-> EmptyBytes]

Exists(st, key) == key \in DOMAIN st

UploadFromString(st, key, content) ==
    [k \in DOMAIN st \cup {key} |-> IF k = key THEN content ELSE st[k]]

\* download_as_text decodes the bytes as UTF-8: the binary contents do not decode
TextDecodes(content) == content.kind \in {"text", "json", "empty"}

DownloadAsText(content) ==
    IF content.kind = "json" THEN <<"<json>">> ELSE content.text

-----------------------------------------------------------------------------
(* log_error *)

AppendedLog_DropsPrior(existing, message) == <<message, "\n">>

\* line 58: existing_log + message + '\n'
AppendedLog(existing, message) == existing \o <<message, "\n">>

ExistingLog_NeverRead(st, key) == <<>>

\* lines 55-57: "" unless the blob exists, then its text
ExistingLog(st, key) ==
    IF Exists(st, key) THEN DownloadAsText(st[key]) ELSE <<>>

\* log_error run to completion by one invocation: [st, exc]
LogError(st, key, message) ==
    IF Exists(st, key) /\ ~TextDecodes(st[key])
    THEN [st |-> st, exc |-> "UnicodeDecodeError"]
    ELSE [st |-> UploadFromString(st, key,
                     TextBlob(AppendedLog(ExistingLog(st, key), message))),
          exc |-> ""]

-----------------------------------------------------------------------------
(* Workbooks as pandas reads them *)

\* a cell of a sheet's used range: text, a date/time, or nothing
TStr(v) == [k |-> "str", v |-> v]
TDate(v) == [k |-> "date", v |-> v]
TMissing == [k |-> "missing", v |-> ""]

ADatetime == "datetime(2025, 2, 10)"

\* str() of a datetime, which is what dtype=str makes of a date cell
StrOfDatetime(d) == CASE d = ADatetime -> "2025-02-10 00:00:00"

\* Timestamp.strftime("%Y-%m-%d")
Strftime(d) == CASE d = ADatetime -> "2025-02-10"

\* values of a DataFrame read with dtype=str: str objects, and float nan where
\* the cell is missing
ObjStr(v) == [py |-> "str", v |-> v]
ObjNaN == [py |-> "nan", v |-> ""]
ObjNone == [py |-> "None", v |-> ""]
ObjTimestamp(d) == [py |-> "Timestamp", v |-> d]

\* line 123 (dtype=str): one cell as xls.parse delivers it
ReadCell(cell) ==
    CASE cell.k = "str" -> ObjStr(cell.v)
      [] cell.k = "date" -> ObjStr(StrOfDatetime(cell.v))
      [] cell.k = "missing" -> ObjNaN

Unnamed(c) == <<"Unnamed: 0", "Unnamed: 1", "Unnamed: 2">>[c]

\* header=0: the label of column c, from the first row (text or blank)
ColumnLabel(cell, c) ==
    CASE cell.k = "str" -> cell.v
      [] cell.k = "missing" -> Unnamed(c)

\* the elements of s at the positions in K, in order
RECURSIVE Keep(_, _)
Keep(s, K) ==
    IF s = <<>> THEN <<>>
    ELSE Keep(SubSeq(s, 1, Len(s) - 1), K)
            \o (IF Len(s) \in K THEN <<s[Len(s)]>> ELSE <<>>)

\* line 123: xls.parse(sheet_name, dtype=str, header=0)
ParseSheet(grid) ==
    IF Len(grid) = 0 THEN [columns |-> <<>>, rows |-> <<>>]
    ELSE [columns |-> [c \in 1..Len(grid[1]) |-> ColumnLabel(grid[1][c], c)],
          rows |-> [r \in 1..(Len(grid) - 1) |->
                      [c \in 1..Len(grid[r + 1]) |-> ReadCell(grid[r + 1][c])]]]

\* line 124: df.dropna(axis=1, how="all")
DropNaColumns(df) ==
    LET K == {c \in 1..Len(df.columns) :
                \E r \in 1..Len(df.rows) : df.rows[r][c].py # "nan"}
    IN [columns |-> Keep(df.columns, K),
        rows |-> [r \in 1..Len(df.rows) |-> Keep(df.rows[r], K)]]

\* line 125: df.dropna(axis=0, how="all")
DropNaRows(df) ==
    LET K == {r \in 1..Len(df.rows) :
                \E c \in 1..Len(df.columns) : df.rows[r][c].py # "nan"}
    IN [columns |-> df.columns, rows |-> Keep(df.rows, K)]

DfEmpty_Never(df) == FALSE

\* line 127: df.empty
DfEmpty(df) == Len(df.columns) = 0 \/ Len(df.rows) = 0

\* line 131: df.to_dict(orient="records")
ToDictRecords(df) ==
    [r \in 1..Len(df.rows) |->
        [c \in 1..Len(df.columns) |-> [col |-> df.columns[c], val |-> df.rows[r][c]]]]

-----------------------------------------------------------------------------
(* json_serializer and json.dumps *)

\* lines 33-38
JsonSerializer(obj) ==
    IF obj.py = "Timestamp" THEN ObjStr(Strftime(obj.v))
    ELSE IF obj.py \in {"nan", "None"} THEN ObjNone
    ELSE ObjStr(obj.v)

JsonString(s) == [t |-> "string", s |-> s]
JsonNull == [t |-> "null", s |-> ""]
JsonNaN == [t |-> "NaN", s |-> ""]

EncodeBasic(obj) == IF obj.py = "None" THEN JsonNull ELSE JsonString(obj.v)

\* line 143: json.dumps(..., default=self.json_serializer) on one value.  The
\* encoder writes str, float and None itself (a float nan as the token NaN) and
\* calls default only for an object it cannot write.
JsonDumpsValue(obj) ==
    IF obj.py = "str" THEN JsonString(obj.v)
    ELSE IF obj.py = "nan" THEN JsonNaN
    ELSE IF obj.py = "None" THEN JsonNull
    ELSE EncodeBasic(JsonSerializer(obj))

\* line 143: the document, keys in the dict's insertion order
JsonDumps(data_dict) ==
    [i \in 1..Len(data_dict) |->
        [key |-> data_dict[i].key,
         records |-> [r \in 1..Len(data_dict[i].val) |->
            [c \in 1..Len(data_dict[i].val[r]) |->
                [col |-> data_dict[i].val[r][c].col,
                 val |-> JsonDumpsValue(data_dict[i].val[r][c].val)]]]]]

-----------------------------------------------------------------------------
(* detect_complexity *)

\* str.lower() on the sheet names of the model
Lower(name) ==
    CASE name = "Sheet1" -> "sheet1"
      [] name = "Data" -> "data"
      [] name = "Report" -> "report"
      [] name = "OVERVIEW" -> "overview"
      [] name = "Metadata Schema" -> "metadata schema"

\* line 47
StructuredNames == {"overview", "metadata schema", "report"}

\* line 44: df.isna().sum().sum() on the raw grid (header=None)
RawMissingCount(grid) ==
    Cardinality({rc \in (1..Len(grid)) \X (1..3) :
                    /\ rc[2] <= Len(grid[rc[1]])
                    /\ grid[rc[1]][rc[2]].k = "missing"})

\* lines 42-50: the loop from sheet i on, returning at the first trigger
RECURSIVE DetectFrom(_, _)
DetectFrom(xls, i) ==
    IF i > Len(xls) THEN FALSE
    ELSE IF RawMissingCount(xls[i].grid) > 0 THEN TRUE
    ELSE IF Lower(xls[i].name) \in StructuredNames THEN TRUE
    ELSE DetectFrom(xls, i + 1)

DetectComplexity_FirstSheetOnly(xls) ==
    /\ Len(xls) > 0
    /\ \/ RawMissingCount(xls[1].grid) > 0
       \/ Lower(xls[1].name) \in StructuredNames

DetectComplexity(xls) == DetectFrom(xls, 1)

-----------------------------------------------------------------------------
(* forward_to_cloud_run *)

\* what requests.post and response.json() give.  kind "transport": post raises
\* a RequestException.  Otherwise status and body, the body as the Python value
\* response.json() returns, or t = "undecodable" when the body is not JSON:
\* response.json() then raises requests' JSONDecodeError, a RequestException.
Response(kind, status, body) == [kind |-> kind, status |-> status, body |-> body]

BodyDictOk == PyDict("payload", FALSE)
BodyDictError == PyDict("error payload", TRUE)
BodyList == [t |-> "list", s |-> "[]", err |-> FALSE]
BodyStrError == PyStr("Internal Server Error: error", TRUE)
BodyNumber == [t |-> "num", s |-> "5", err |-> FALSE]
BodyUndecodable == [t |-> "undecodable", s |-> "<html>", err |-> FALSE]

Bodies == {BodyDictOk, BodyDictError, BodyList, BodyStrError, BodyNumber,
           BodyUndecodable}

TransportFailure == Response("transport", 0, PyNone)

Responses == {TransportFailure}
    \cup {Response("http", status, body) : status \in {200, 500}, body \in Bodies}

NotCalled == [t |-> "not called", s |-> "", err |-> FALSE]

ErrorDescriptor(msg) == PyDict(msg, TRUE)

\* lines 61-85
ForwardToCloudRun(resp) ==
    IF resp.kind = "transport"
    THEN ErrorDescriptor("Failed to communicate with Cloud Run")
    ELSE IF resp.body.t = "undecodable"
    THEN ErrorDescriptor("Failed to communicate with Cloud Run")
    ELSE IF resp.status = 200 THEN resp.body
    ELSE IF resp.body.t = "dict" THEN ErrorDescriptor("Cloud Run failed")
    ELSE PyRaise("AttributeError")

-----------------------------------------------------------------------------
(* parse *)

\* line 98
FileFormat(source_blob) == IF EndsWith(source_blob, DotXls) THEN "xls" ELSE "xlsx"

\* line 95: not excel_data
ZeroBytes(content) ==
    content.kind = "empty" \/ (content.kind = "text" /\ content.text = <<>>)

\* data_dict[key] = val
DictSet(d, key, val) ==
    IF \E i \in 1..Len(d) : d[i].key = key
    THEN [i \in 1..Len(d) |-> IF d[i].key = key THEN [key |-> key, val |-> val] ELSE d[i]]
    ELSE Append(d, [key |-> key, val |-> val])

\* lines 124-127 on one parsed sheet
Cleaned(df) == DropNaRows(DropNaColumns(df))

\* lines 120-137: the loop from sheet i on; n counts the sheets it parsed
RECURSIVE ConvertFrom(_, _, _)
ConvertFrom(xls, i, data_dict) ==
    IF i > Len(xls) THEN [exc |-> "", n |-> i - 1, data |-> data_dict]
    ELSE IF xls[i].bad THEN [exc |-> "sheet", n |-> i, data |-> data_dict]
    ELSE LET df == Cleaned(ParseSheet(xls[i].grid))
         IN IF DfEmpty(df) THEN ConvertFrom(xls, i + 1, data_dict)
            ELSE ConvertFrom(xls, i + 1,
                             DictSet(data_dict, xls[i].name, ToDictRecords(df)))

Times(n, e) == [i \in 1..n |-> e]

Result(st, ret, trace, detected, fwd) ==
    [st |-> st, ret |-> ret, trace |-> trace, detected |-> detected, fwd |-> fwd]

\* lines 149-153, and 134-137: log the error and return the failure text;
\* an exception of log_error itself leaves parse
Fail(st, error_blob, message, trace, detected, fwd) ==
    LET l == LogError(st, error_blob, message)
    IN Result(l.st, IF l.exc = "" THEN FAILED ELSE PyRaise(l.exc),
              Append(trace, "log_error"), detected, fwd)

\* lines 119-147
LocalConversion(st, destination_blob, error_blob, xls, trace, detected, fwd) ==
    LET c == ConvertFrom(xls, 1, <<>>)
        t == trace \o Times(c.n, "sheet.parse")
    IN IF c.exc # ""
       THEN Fail(st, error_blob, "Error processing sheet", t, detected, fwd)
       ELSE IF c.data = <<>>
       THEN Fail(st, error_blob,
                 "Error processing file: No valid data found in the Excel file.",
                 t, detected, fwd)
       ELSE Result(UploadFromString(st, destination_blob, JsonBlob(JsonDumps(c.data))),
                   SUCCESS, Append(t, "upload_json"), detected, fwd)

\* lines 112-117, then the local path
AfterDecode(st, destination_blob, error_blob, xls, resp, trace) ==
    LET complex == DetectComplexity(xls)
        detected == IF complex THEN "complex" ELSE "simple"
        fwd == IF complex THEN ForwardToCloudRun(resp) ELSE NotCalled
        t == Append(trace, "detect_complexity")
                \o (IF complex THEN <<"forward_to_cloud_run">> ELSE <<>>)
    IN IF ~complex
       THEN LocalConversion(st, destination_blob, error_blob, xls, t, detected, fwd)
       ELSE IF fwd.t = "raise"
       THEN Fail(st, error_blob, "Error processing file: AttributeError", t, detected, fwd)
       ELSE IF fwd.t \notin {"dict", "list", "str"}
       THEN Fail(st, error_blob, "Error processing file: TypeError", t, detected, fwd)
       ELSE IF ~fwd.err
       THEN Result(st, fwd, t, detected, fwd)
       ELSE LocalConversion(st, destination_blob, error_blob, xls, t, detected, fwd)

\* lines 87-153: GCPXLSXParser.parse, given what the remote service would answer
Parse(st, source_blob, destination_blob, error_blob, resp) ==
    IF ~Exists(st, source_blob)
    THEN Fail(st, error_blob, "Error processing file: File does not exist in bucket.",
              <<"exists">>, "n/a", NotCalled)
    ELSE IF ZeroBytes(st[source_blob])
    THEN Fail(st, error_blob, "Error processing file: Downloaded file is empty.",
              <<"exists", "download">>, "n/a", NotCalled)
    ELSE IF st[source_blob].kind # "workbook"
    THEN Fail(st, error_blob,
              IF FileFormat(source_blob) = "xls"
              THEN "Error processing file: Failed to read .xls file."
              ELSE "Error processing file: Invalid .xlsx file format",
              <<"exists", "download", "ExcelFile">>, "n/a", NotCalled)
    ELSE AfterDecode(st, destination_blob, error_blob, st[source_blob].wb, resp,
                     <<"exists", "download", "ExcelFile">>)

-----------------------------------------------------------------------------
(* Values of the variables a specification does not use *)

NoInput == [trigger |-> "none", resp |-> TransportFailure,
            body |-> [kind |-> "invalid", t |-> "none", truthy |-> FALSE]]
NoParser == [constructed |-> FALSE, source_blob |-> <<>>,
             destination_blob |-> <<>>, error_blob |-> <<>>]
NoOut == [status |-> 0, field |-> "", val |-> PyNone, trace |-> <<>>,
          detected |-> "n/a", fwd |-> PyNone]

-----------------------------------------------------------------------------
(* One invocation of parse on a parser whose three keys are distinct *)

MaxSheets == 2

SheetNames == {"Sheet1", "Data", "Report"}

HeaderRow == <<TStr("Title"), TStr("Date")>>
HeaderGapRow == <<TStr("Title"), TMissing>>
FullRow == <<TStr("Doc1"), TStr("2025-02-10")>>
DatedRow == <<TStr("Doc1"), TDate(ADatetime)>>
PartialRow == <<TStr("Doc2"), TMissing>>
NullRow == <<TMissing, TMissing>>

\* the used ranges a sheet of the model can have: no cell at all, a header
\* alone, full rows, blank rows, blank cells inside a row, a blank header
\* cell, a date cell.  Header cells are text or blank, and distinct.
Grids == {
    <<>>,
    <<HeaderRow>>,
    <<HeaderRow, FullRow>>,
    <<HeaderRow, NullRow>>,
    <<HeaderRow, PartialRow>>,
    <<HeaderRow, FullRow, PartialRow>>,
    <<HeaderRow, NullRow, FullRow>>,
    <<HeaderGapRow, FullRow>>,
    <<HeaderRow, DatedRow>> }

\* bad: xls.parse(sheet_name, dtype=str, header=0) raises on this sheet
Sheets ==
    {[name |-> n, grid |-> g, bad |-> FALSE] : n \in SheetNames, g \in Grids}
    \cup {[name |-> n, grid |-> <<HeaderRow, FullRow>>, bad |-> TRUE] : n \in SheetNames}

\* sheet names are unique within a workbook
Workbooks ==
    UNION {{w \in [1..n -> Sheets] : \A i, j \in 1..n : i # j => w[i].name # w[j].name}
           : n \in 1..MaxSheets}

SourceKey == <<"t", ".", "x", "l", "s", "x">>
DestinationKey == <<"t", ".", "j", "s", "o", "n">>
ErrorKey == <<"t", "_", "e", "r", "r", "o", "r", ".", "l", "o", "g">>

OldLog == <<"Error processing file: Downloaded file is empty.", "\n">>

SourceStates ==
    {NoStore, (SourceKey :> EmptyBytes), (SourceKey :> GarbageBytes)}
    \cup {(SourceKey :> WorkbookBytes(w)) : w \in Workbooks}

Init ==
    /\ \E s \in SourceStates :
          store \in {s, UploadFromString(s, ErrorKey, TextBlob(OldLog))}
    /\ prior = store
    /\ pc = "start"
    /\ input = NoInput
    /\ parser = [constructed |-> TRUE, source_blob |-> SourceKey,
                 destination_blob |-> DestinationKey, error_blob |-> ErrorKey]
    /\ out = NoOut
    /\ existing_log = <<>>
    /\ calls = <<>>
    /\ hist = <<>>
    /\ overlap = FALSE

\* the remote answer is recorded when the call was made
ParseCall ==
    /\ pc = "start"
    /\ \E resp \in Responses :
          LET r == Parse(store, parser.source_blob, parser.destination_blob,
                         parser.error_blob, resp)
          IN /\ store' = r.st
             /\ out' = [status |-> 0, field |-> "", val |-> r.ret, trace |-> r.trace,
                        detected |-> r.detected, fwd |-> r.fwd]
             /\ input' = [trigger |-> "parse",
                          resp |-> IF r.fwd = NotCalled THEN TransportFailure ELSE resp,
                          body |-> NoInput.body]
    /\ pc' = "done"
    /\ UNCHANGED <<parser, prior, existing_log, calls, hist, overlap>>

Next == ParseCall

Spec == Init /\ [][Next]_vars

\* the invocation of parse has returned
Returned == pc = "done" /\ input.trigger = "parse"

InSeq(e, seq) == \E i \in 1..Len(seq) : seq[i] = e

\* the text of the parser's error log blob, "" while it does not exist
ErrorLog(st) == IF Exists(st, ErrorKey) THEN st[ErrorKey].text ELSE <<>>

\* exactly one line was appended to the error log, after what it held
OneLineAppended ==
    /\ Len(ErrorLog(store)) = Len(ErrorLog(prior)) + 2
    /\ SubSeq(ErrorLog(store), 1, Len(ErrorLog(prior))) = ErrorLog(prior)
    /\ ErrorLog(store)[Len(ErrorLog(store))] = "\n"

DestinationWritten == Exists(store, DestinationKey) /\ InSeq("upload_json", out.trace)

\* the workbook parse decoded
Decoded == prior[SourceKey].wb

\* C1: parse ends either in success (the JSON written to the destination and
\* the success message returned) or in failure (one line appended to the error
\* log and "Failed to process XLSX file." returned); the destination is written
\* exactly on success; there is no other return value and no exception.
C1_SuccessOrFailure ==
    Returned =>
        \/ /\ out.val = SUCCESS
           /\ DestinationWritten
           /\ ErrorLog(store) = ErrorLog(prior)
        \/ /\ out.val = FAILED
           /\ ~Exists(store, DestinationKey)
           /\ OneLineAppended

\* what local conversion alone makes of the workbook, no remote call made
LocalOnly ==
    LocalConversion(prior, DestinationKey, ErrorKey, Decoded, <<>>, "n/a", NotCalled)

\* the same return value and the same destination blob
SameOutcomeAsLocalOnly ==
    /\ out.val = LocalOnly.ret
    /\ Exists(store, DestinationKey) <=> Exists(LocalOnly.st, DestinationKey)
    /\ Exists(store, DestinationKey) => store[DestinationKey] = LocalOnly.st[DestinationKey]

RemoteFailed ==
    \/ input.resp.kind = "transport"
    \/ input.resp.status # 200
    \/ input.resp.body.t = "undecodable"

\* C3: for a workbook flagged complex, when the remote client returns an error
\* descriptor parse ends as local conversion of the same workbook ends; a
\* failure of the remote call alone never gives the failure outcome; the
\* remote client is called at most once.
C3_RemoteFailureFallsBack ==
    (Returned /\ out.detected = "complex") =>
        /\ (out.fwd.t = "dict" /\ out.fwd.err) => SameOutcomeAsLocalOnly
        /\ RemoteFailed => SameOutcomeAsLocalOnly
        /\ Cardinality({i \in 1..Len(out.trace) : out.trace[i] = "forward_to_cloud_run"}) <= 1

\* C4: forward_to_cloud_run never raises: on HTTP 200 it returns the parsed
\* body, on any other status or transport failure (a body that is not JSON
\* included) an error descriptor, a mapping with an "error" field.
C4_ForwardNeverRaises ==
    (Returned /\ out.fwd # NotCalled) =>
        /\ out.fwd.t # "raise"
        /\ IF ~RemoteFailed THEN out.fwd = input.resp.body
           ELSE out.fwd.t = "dict" /\ out.fwd.err

\* the scalar rendering rule: a date/time as YYYY-MM-DD, a missing value as
\* null, anything else as its string
ScalarRule(cell) ==
    CASE cell.k = "date" -> JsonString(Strftime(cell.v))
      [] cell.k = "missing" -> JsonNull
      [] cell.k = "str" -> JsonString(cell.v)

SheetNamed(xls, name) == CHOOSE sh \in {xls[i] : i \in 1..Len(xls)} : sh.name = name

DataCells(grid) ==
    {grid[r][c] : r \in 2..Len(grid), c \in 1..2}

\* C5: every value the local path puts into the destination JSON is a cell of
\* that sheet rendered by the scalar rule (date -> YYYY-MM-DD, missing -> null,
\* other -> its string).
C5_ScalarRendering ==
    (Returned /\ DestinationWritten) =>
        LET doc == store[DestinationKey].json
        IN \A i \in 1..Len(doc) : \A r \in 1..Len(doc[i].records) :
              \A c \in 1..Len(doc[i].records[r]) :
                 doc[i].records[r][c].val \in
                    {ScalarRule(cell) : cell \in DataCells(SheetNamed(Decoded, doc[i].key).grid)}

HasMissingCell(grid) ==
    \E r \in 1..Len(grid) : \E c \in 1..Len(grid[r]) : grid[r][c].k = "missing"

FirstIndex(e, seq) == CHOOSE i \in 1..Len(seq) : seq[i] = e /\ \A j \in 1..(i - 1) : seq[j] # e

\* C7: detect_complexity answers true exactly when some sheet has a missing
\* cell in its raw grid or a name that is, case-insensitively, one of
\* "overview", "metadata schema", "report" (the early return changes nothing);
\* and when it answers true, parse calls the remote client before any local
\* conversion of a sheet.
C7_DetectComplexity ==
    (Returned /\ out.detected # "n/a") =>
        /\ (out.detected = "complex") <=>
              \E i \in 1..Len(Decoded) :
                 \/ HasMissingCell(Decoded[i].grid)
                 \/ Lower(Decoded[i].name) \in {"overview", "metadata schema", "report"}
        /\ out.detected = "complex" =>
              /\ InSeq("forward_to_cloud_run", out.trace)
              /\ \A i \in 1..Len(out.trace) :
                    out.trace[i] = "sheet.parse"
                        => FirstIndex("forward_to_cloud_run", out.trace) < i

\* C7 witness: only the second sheet triggers, by its name alone; the remote
\* call was made, failed, and local conversion followed it
C7_Witness ==
    /\ Returned
    /\ out.detected = "complex"
    /\ Len(Decoded) = 2
    /\ \A i \in 1..2 : ~HasMissingCell(Decoded[i].grid)
    /\ Decoded[1].name = "Sheet1" /\ Decoded[2].name = "Report"
    /\ InSeq("sheet.parse", out.trace)
    /\ out.val = SUCCESS

\* a sheet's table keeps something after all-null columns and rows are dropped:
\* some cell below the header row is not missing
NonEmptySheet(sh) ==
    \E r \in 2..Len(sh.grid) : \E c \in 1..Len(sh.grid[r]) : sh.grid[r][c].k # "missing"

NonEmptyNames(xls) ==
    LET kept == SelectSeq(xls, NonEmptySheet)
    IN [i \in 1..Len(kept) |-> kept[i].name]

\* parse went through local conversion and no sheet raised
LocalPathCompleted ==
    /\ Returned
    /\ out.detected # "n/a"
    /\ out.detected = "complex" => (out.fwd.t \in {"dict", "list", "str"} /\ out.fwd.err)
    /\ \A i \in 1..Len(Decoded) : ~Decoded[i].bad

\* C8: the top-level keys of the JSON the local path writes are the names of
\* the sheets that are non-empty after dropping all-null columns and rows, in
\* workbook order; an empty sheet is skipped without error; when no sheet
\* remains the invocation fails with NoData: failure returned, the error
\* logged, the destination not written.
C8_KeysAreNonEmptySheets ==
    /\ (Returned /\ DestinationWritten) =>
          [i \in 1..Len(store[DestinationKey].json) |-> store[DestinationKey].json[i].key]
              = NonEmptyNames(Decoded)
    /\ (LocalPathCompleted /\ NonEmptyNames(Decoded) # <<>>) =>
          out.val = SUCCESS /\ DestinationWritten /\ ErrorLog(store) = ErrorLog(prior)
    /\ (LocalPathCompleted /\ NonEmptyNames(Decoded) = <<>>) =>
          /\ out.val = FAILED
          /\ ~Exists(store, DestinationKey)
          /\ ErrorLog(store) = ErrorLog(prior) \o
                <<"Error processing file: No valid data found in the Excel file.", "\n">>

\* C8 witness: the first sheet is empty once its all-null row is dropped, the
\* second is not; the JSON is written with the second sheet's name as only key
C8_Witness ==
    /\ LocalPathCompleted
    /\ Len(Decoded) = 2
    /\ Decoded[1].grid = <<HeaderRow, NullRow>>
    /\ Decoded[2].grid = <<HeaderRow, NullRow, FullRow>>
    /\ DestinationWritten
    /\ Len(store[DestinationKey].json) = 1
    /\ store[DestinationKey].json[1].key = Decoded[2].name
    /\ Len(store[DestinationKey].json[1].records) = 1

-----------------------------------------------------------------------------
(* The two triggers *)

MaxPrefixLen == 5

KeyChars == {"a", ".", "x", "l", "s"}

Prefixes == UNION {[1..n -> KeyChars] : n \in 0..MaxPrefixLen}

\* object names of storage events: any prefix, ending in .xls, .xlsx or neither
EventNames == {p \o suffix : p \in Prefixes, suffix \in {DotXls, DotXlsx, <<>>}}

AXlsx == <<"a", ".", "x", "l", "s", "x">>
AXls == <<"a", ".", "x", "l", "s">>
ATxt == <<"a", ".", "t", "x", "t">>

PlainSheet == [name |-> "Sheet1", grid |-> <<HeaderRow, FullRow>>, bad |-> FALSE]
ReportSheet == [name |-> "Report", grid |-> <<HeaderRow, FullRow>>, bad |-> FALSE]

TriggerStores ==
    {NoStore} \cup
    {(k :> c) : k \in {AXlsx, AXls},
                c \in {GarbageBytes, WorkbookBytes(<<PlainSheet>>),
                       WorkbookBytes(<<ReportSheet>>)}}

TriggerResponses == {TransportFailure, Response("http", 200, BodyDictOk)}

\* a field of the request's JSON object: absent, or a value of Python type t
\* (a str with the characters in key, the number 5, None)
Field(present, t, key) == [present |-> present, t |-> t, key |-> key]
Absent == Field(FALSE, "none", <<>>)
StrField(key) == Field(TRUE, "str", key)

\* request.get_json(silent=True): kind "invalid" when the body is not JSON
\* (None is returned), else the value: its Python type t, its truth value,
\* and for a dict its "bucket" and "name" fields
Body(kind, t, truthy, bucket, name) ==
    [kind |-> kind, t |-> t, truthy |-> truthy, bucket |-> bucket, name |-> name]

DictBodies ==
    {Body("json", "dict", truthy, bucket, name) :
        truthy \in BOOLEAN,
        bucket \in {Absent, StrField(<<>>), StrField(<<"b">>)},
        name \in {Absent, Field(TRUE, "none", <<>>), Field(TRUE, "num", <<>>),
                  StrField(<<>>), StrField(AXlsx), StrField(AXls), StrField(ATxt)}}

\* a dict is falsy exactly when it has no key at all
HttpBodies ==
    {Body("invalid", "none", FALSE, Absent, Absent)}
    \cup {b \in DictBodies : (b.bucket.present \/ b.name.present) => b.truthy}
    \cup {Body("json", t, truthy, Absent, Absent) :
            t \in {"list", "str", "num"}, truthy \in BOOLEAN}
    \cup {Body("json", "none", FALSE, Absent, Absent)}

\* the truth value of a field as dict.get returns it
Truthy(f) ==
    /\ f.present
    /\ \/ f.t = "num"
       \/ f.t = "str" /\ f.key # <<>>

InitTriggers ==
    /\ store \in TriggerStores
    /\ prior = store
    /\ pc = "start"
    /\ input = NoInput
    /\ parser = NoParser
    /\ out = NoOut
    /\ existing_log = <<>>
    /\ calls = <<>>
    /\ hist = <<>>
    /\ overlap = FALSE

HandlerOut(status, field, val, r) ==
    [status |-> status, field |-> field, val |-> val, trace |-> r.trace,
     detected |-> r.detected, fwd |-> r.fwd]

NoParse == Result(store, PyNone, <<>>, "n/a", NotCalled)

NewParser(source_blob, destination_blob, error_blob) ==
    [constructed |-> TRUE, source_blob |-> source_blob,
     destination_blob |-> destination_blob, error_blob |-> error_blob]

\* line 165: the keys the event trigger derives
EventDestination(source_blob) == Replace(Replace(source_blob, DotXlsx, DotJson), DotXls, DotJson)
EventErrorLog(source_blob) == Replace(source_blob, DotXlsx, ErrorLogSuffix)

\* lines 187-188: the keys the HTTP trigger derives
HttpDestination(source_blob) == Replace(Replace(source_blob, DotXlsx, DotJson), DotXls, DotJson)
HttpErrorLog(source_blob) ==
    Replace(Replace(source_blob, DotXlsx, ErrorLogSuffix), DotXls, ErrorLogSuffix)

\* lines 155-169: convert_xlsx_to_json; an event without "name" is a KeyError
ConvertXlsxToJson ==
    /\ pc = "start"
    /\ \E ev \in {StrField(n) : n \in EventNames} \cup {Absent}, resp \in TriggerResponses :
          /\ input' = [trigger |-> "event", resp |-> resp,
                       body |-> Body("json", "dict", TRUE, StrField(<<"b">>), ev)]
          /\ IF ~ev.present
             THEN /\ out' = HandlerOut(0, "", PyStr("Function execution failed.", FALSE), NoParse)
                  /\ UNCHANGED <<store, parser>>
             ELSE IF ~(EndsWith(ev.key, DotXlsx) \/ EndsWith(ev.key, DotXls))
             THEN /\ out' = HandlerOut(0, "", PyStr("Ignoring non-Excel file.", FALSE), NoParse)
                  /\ UNCHANGED <<store, parser>>
             ELSE LET p == NewParser(ev.key, EventDestination(ev.key), EventErrorLog(ev.key))
                      r == Parse(store, p.source_blob, p.destination_blob, p.error_blob, resp)
                  IN /\ parser' = p
                     /\ store' = r.st
                     /\ out' = HandlerOut(0, "",
                                  IF r.ret.t = "raise"
                                  THEN PyStr("Function execution failed.", FALSE)
                                  ELSE r.ret, r)
    /\ pc' = "done"
    /\ UNCHANGED <<prior, existing_log, calls, hist, overlap>>

\* lines 171-196: convert_xlsx_to_json_http
ConvertXlsxToJsonHttp ==
    /\ pc = "start"
    /\ \E body \in HttpBodies, resp \in TriggerResponses :
          /\ input' = [trigger |-> "http", resp |-> resp, body |-> body]
          /\ IF body.kind = "invalid" \/ ~body.truthy
             THEN /\ out' = HandlerOut(400, "error", PyStr("Invalid JSON payload", FALSE), NoParse)
                  /\ UNCHANGED <<store, parser>>
             ELSE IF body.t # "dict"
             THEN /\ out' = HandlerOut(500, "error", PyStr("AttributeError", FALSE), NoParse)
                  /\ UNCHANGED <<store, parser>>
             ELSE IF ~Truthy(body.bucket) \/ ~Truthy(body.name)
             THEN /\ out' = HandlerOut(400, "error",
                                       PyStr("Missing required parameters", FALSE), NoParse)
                  /\ UNCHANGED <<store, parser>>
             ELSE IF body.name.t # "str"
             THEN /\ out' = HandlerOut(500, "error", PyStr("AttributeError", FALSE), NoParse)
                  /\ UNCHANGED <<store, parser>>
             ELSE LET name == body.name.key
                      p == NewParser(name, HttpDestination(name), HttpErrorLog(name))
                      r == Parse(store, p.source_blob, p.destination_blob, p.error_blob, resp)
                  IN /\ parser' = p
                     /\ store' = r.st
                     /\ out' = IF r.ret.t = "raise"
                               THEN HandlerOut(500, "error", PyStr(r.ret.s, FALSE), r)
                               ELSE HandlerOut(200, "message", r.ret, r)
    /\ pc' = "done"
    /\ UNCHANGED <<prior, existing_log, calls, hist, overlap>>

NextTriggers == ConvertXlsxToJson \/ ConvertXlsxToJsonHttp

SpecTriggers == InitTriggers /\ [][NextTriggers]_vars

\* the key without its .xlsx / .xls suffix
Stem(key) ==
    IF EndsWith(key, DotXlsx) THEN SubSeq(key, 1, Len(key) - Len(DotXlsx))
    ELSE SubSeq(key, 1, Len(key) - Len(DotXls))

\* C2: under both triggers, for a source key ending in .xls or .xlsx the
\* destination key is the source key with only that suffix replaced by .json,
\* the error-log key the source key with only that suffix replaced by
\* _error.log, and both differ from the source key.
C2_KeysReplaceOnlyTheSuffix ==
    (parser.constructed /\ input.trigger \in {"event", "http"}
        /\ (EndsWith(parser.source_blob, DotXlsx) \/ EndsWith(parser.source_blob, DotXls)))
    => /\ parser.destination_blob = Stem(parser.source_blob) \o DotJson
       /\ parser.error_blob = Stem(parser.source_blob) \o ErrorLogSuffix
       /\ parser.destination_blob # parser.source_blob
       /\ parser.error_blob # parser.source_blob

\* a field given as a non-empty string
GivenStr(f) == f.present /\ f.t = "str" /\ f.key # <<>>

\* C6: the HTTP trigger answers 400 "Invalid JSON payload" to a body that is
\* not JSON, 400 "Missing required parameters" to a JSON object without
\* "bucket" or without "name" (the empty object included), 200 with parse's
\* return value as "message" to an object giving both (as non-empty strings),
\* and an "error" field whenever it answers 500.
C6_HttpResponses ==
    (input.trigger = "http" /\ pc = "done") =>
        /\ input.body.kind = "invalid" =>
              out.status = 400 /\ out.field = "error" /\ out.val.s = "Invalid JSON payload"
        /\ (input.body.kind = "json" /\ input.body.t = "dict"
                /\ (~input.body.bucket.present \/ ~input.body.name.present)) =>
              out.status = 400 /\ out.field = "error"
                  /\ out.val.s = "Missing required parameters"
        /\ (input.body.kind = "json" /\ input.body.t = "dict"
                /\ GivenStr(input.body.bucket) /\ GivenStr(input.body.name)) =>
              out.status = 200 /\ out.field = "message"
        /\ out.status = 500 => out.field = "error"

-----------------------------------------------------------------------------
(* Concurrent invocations that log to the same error blob.  Each storage    *)
(* call of log_error (exists, download_as_text, upload_from_string) is one  *)
(* step; nothing orders the steps of two invocations.                       *)

MaxLogCalls == 2

Loggers == {1, 2}

LogKey == <<"a", "_", "e", "r", "r", "o", "r", ".", "l", "o", "g">>

MessageOf(p, n) ==
    <<<<"a1", "a2", "a3", "a4">>, <<"b1", "b2", "b3", "b4">>>>[p][n]

PriorLogs == {NoStore} \cup
    {(LogKey :> TextBlob(t)) : t \in {<<>>, <<"old", "\n">>, <<"old">>}}

InitLog ==
    /\ store \in PriorLogs
    /\ prior = store
    /\ pc = [p \in Loggers |-> "idle"]
    /\ existing_log = [p \in Loggers |-> <<>>]
    /\ calls = [p \in Loggers |-> 0]
    /\ hist = <<>>
    /\ overlap = FALSE
    /\ input = NoInput
    /\ parser = NoParser
    /\ out = NoOut

\* lines 54-55: the call begins, existing_log = ""
LogBegin(p) ==
    /\ pc[p] = "idle"
    /\ calls[p] < MaxLogCalls
    /\ pc' = [pc EXCEPT ![p] = "exists"]
    /\ existing_log' = [existing_log EXCEPT ![p] = <<>>]
    /\ overlap' = (overlap \/ \E q \in Loggers \ {p} : pc[q] # "idle")
    /\ UNCHANGED <<store, calls, hist, input, parser, out, prior>>

\* line 56: error_blob.exists()
LogExists(p) ==
    /\ pc[p] = "exists"
    /\ pc' = [pc EXCEPT ![p] = IF Exists(store, LogKey) THEN "download" ELSE "upload"]
    /\ UNCHANGED <<store, existing_log, calls, hist, overlap, input, parser, out, prior>>

\* line 57: existing_log = error_blob.download_as_text()
LogDownload(p) ==
    /\ pc[p] = "download"
    /\ existing_log' = [existing_log EXCEPT ![p] = ExistingLog(store, LogKey)]
    /\ pc' = [pc EXCEPT ![p] = "upload"]
    /\ UNCHANGED <<store, calls, hist, overlap, input, parser, out, prior>>

\* line 58: error_blob.upload_from_string(existing_log + message + '\n')
LogUpload(p) ==
    /\ pc[p] = "upload"
    /\ store' = UploadFromString(store, LogKey,
                    TextBlob(AppendedLog(existing_log[p], MessageOf(p, calls[p] + 1))))
    /\ hist' = Append(hist, MessageOf(p, calls[p] + 1))
    /\ calls' = [calls EXCEPT ![p] = @ + 1]
    /\ pc' = [pc EXCEPT ![p] = "idle"]
    /\ UNCHANGED <<existing_log, overlap, input, parser, out, prior>>

NextLog == \E p \in Loggers : LogBegin(p) \/ LogExists(p) \/ LogDownload(p) \/ LogUpload(p)

SpecLog == InitLog /\ [][NextLog]_vars

\* the text of the error log blob, "" while it does not exist
LogText(st) == IF Exists(st, LogKey) THEN st[LogKey].text ELSE <<>>

RECURSIVE Lines(_)
Lines(ms) == IF ms = <<>> THEN <<>> ELSE <<Head(ms), "\n">> \o Lines(Tail(ms))

InText(m, text) == \E i \in 1..Len(text) : text[i] = m

\* C9: under sequential use (no two log_error calls overlap) the error log is
\* its prior content followed by every logged message, in call order, each
\* terminated by a newline; nothing logged earlier is removed or altered.
C9_AppendOnlySequential ==
    ~overlap => LogText(store) = LogText(prior) \o Lines(hist)

\* C9 witness: a pre-existing log has received calls from both invocations, one after another
C9_Witness ==
    /\ ~overlap
    /\ LogText(prior) # <<>>
    /\ Len(hist) >= 3
    /\ calls[1] >= 1 /\ calls[2] >= 1
    /\ LogText(store) = LogText(prior) \o Lines(hist)

\* C10: when the two invocations' log_error calls did not interleave, the
\* lines of both are in the error log (a lost line needs an interleaving).
C10_NonInterleavedKeepsBoth ==
    (~overlap /\ \A p \in Loggers : pc[p] = "idle")
        => \A i \in 1..Len(hist) : InText(hist[i], LogText(store))

\* C10 witness: both invocations have logged once, their calls interleaved,
\* and the line of one of them is missing from the final blob
C10_LostLine ==
    /\ overlap
    /\ \A p \in Loggers : pc[p] = "idle" /\ calls[p] = 1
    /\ \E i \in 1..Len(hist) : ~InText(hist[i], LogText(store))
    /\ \E i \in 1..Len(hist) : InText(hist[i], LogText(store))

====
